---- MODULE Spec2Model ----
(***************************************************************************)
(* micro-os: a single React component (App) holding a collection of        *)
(* entries and a selection, written through to localStorage, with JSON     *)
(* import/export.                                                          *)
(*                                                                         *)
(* Representation.                                                         *)
(*   - An id is an integer: EmptyId (0) is the empty string "", positive   *)
(*     numbers are ids found in files / earlier sessions, negative numbers *)
(*     are the ids uid() returns in this session (-1, -2, ...).            *)
(*   - A text is a sequence of one-character strings over a small          *)
(*     alphabet; "A" is the one upper-case letter, " " the one blank.      *)
(*     The literal texts of the source are abbreviated to one letter.      *)
(*   - A timestamp is a natural number; Infinity (what JSON.parse gives    *)
(*     for 1e999) is the number above every clock value, and JsonNull      *)
(*     is what JSON.stringify writes for it.                               *)
(***************************************************************************)
EXTENDS Integers, Sequences, FiniteSets

\* ---------------------------------------------------------------- bounds
MaxTime == 2
MaxCreate == 1
MaxImports == 2
MaxSteps == 5

\* ------------------------------------------------------------- constants
EmptyId == 0
JsonNull == -1
Infinity == MaxTime + 2

Null == [null |-> TRUE]

\* the most entries a session can hold: the seeds or the stored ones, the
\* created ones and the ids 0, 1, 2 and -1 of the files
MaxEntries == MaxCreate + 6

\* ------------------------------------------------------------ sequences
SeqRange(s) == {s[i] : i \in DOMAIN s}

RECURSIVE FilterSeq(_, _)
\* Array.prototype.filter, with the kept elements given as a set of indices' test
FilterSeq(s, keep) ==
  IF s = <<>> THEN <<>>
  ELSE LET rest == FilterSeq(Tail(s), [i \in 1..(Len(s) - 1) |-> keep[i + 1]])
       IN IF keep[1] THEN <<Head(s)>> \o rest ELSE rest

RemoveAt(s, i) == SubSeq(s, 1, i - 1) \o SubSeq(s, i + 1, Len(s))

\* ---------------------------------------------------------------- texts
ToLowerCase(t) == [i \in DOMAIN t |-> IF t[i] = "A" THEN "a" ELSE t[i]]

RECURSIVE TrimStart(_)
TrimStart(t) == IF t # <<>> /\ Head(t) = " " THEN TrimStart(Tail(t)) ELSE t

RECURSIVE TrimEnd(_)
TrimEnd(t) ==
  IF t # <<>> /\ t[Len(t)] = " " THEN TrimEnd(SubSeq(t, 1, Len(t) - 1)) ELSE t

Trim(t) == TrimEnd(TrimStart(t))

\* String.prototype.includes
Includes(hay, q) ==
  \E i \in 0..(Len(hay) - Len(q)) : SubSeq(hay, i + 1, i + Len(q)) = q

RECURSIVE Split(_, _)
\* String.prototype.split on a one-character separator
Split(t, sep) ==
  IF \A i \in DOMAIN t : t[i] # sep THEN <<t>>
  ELSE LET k == CHOOSE i \in DOMAIN t :
                  t[i] = sep /\ \A j \in 1..(i - 1) : t[j] # sep
       IN <<SubSeq(t, 1, k - 1)>> \o Split(SubSeq(t, k + 1, Len(t)), sep)

RECURSIVE Join(_, _)
\* Array.prototype.join
Join(ts, sep) ==
  IF ts = <<>> THEN <<>>
  ELSE IF Len(ts) = 1 THEN ts[1]
  ELSE ts[1] \o sep \o Join(Tail(ts), sep)

normalizeTags(input) ==
  LET pieces == Split(input, ",")
      trimmed == [i \in DOMAIN pieces |-> Trim(pieces[i])]
      nonEmpty == FilterSeq(trimmed, [i \in DOMAIN trimmed |-> trimmed[i] # <<>>])
      lower == [i \in DOMAIN nonEmpty |-> ToLowerCase(nonEmpty[i])]
  IN FilterSeq(lower,
       [i \in DOMAIN lower |-> \A j \in 1..(i - 1) : lower[j] # lower[i]])

\* -------------------------------------------------------------- entries
Entry(id, title, oneLiner, example, tags, createdAt, updatedAt) ==
  [id |-> id, title |-> title, oneLiner |-> oneLiner, example |-> example,
   tags |-> tags, createdAt |-> createdAt, updatedAt |-> updatedAt]

RECURSIVE Insert(_, _)
\* where a stable descending sort puts e among the already sorted s, e
\* having come after every element of s in the input
Insert(s, e) ==
  IF s = <<>> THEN <<e>>
  ELSE IF e.updatedAt > Head(s).updatedAt THEN <<e>> \o s
  ELSE <<Head(s)>> \o Insert(Tail(s), e)

RECURSIVE SortDesc(_)
\* [...].sort((a, b) => b.updatedAt - a.updatedAt): descending, stable
SortDesc(s) ==
  IF s = <<>> THEN <<>>
  ELSE Insert(SortDesc(SubSeq(s, 1, Len(s) - 1)), s[Len(s)])

Hay(e) ==
  ToLowerCase(e.title \o <<"\n">> \o e.oneLiner \o <<"\n">> \o e.example
              \o <<"\n">> \o Join(e.tags, <<" ">>))

filtered(es, query) ==
  LET q == ToLowerCase(Trim(query))
  IN IF q = <<>> THEN SortDesc(es)
     ELSE SortDesc(FilterSeq(es, [i \in DOMAIN es |-> Includes(Hay(es[i]), q)]))

selected(es, sel) ==
  IF \E i \in DOMAIN es : es[i].id = sel
  THEN es[CHOOSE i \in DOMAIN es :
            es[i].id = sel /\ \A j \in 1..(i - 1) : es[j].id # sel]
  ELSE Null

\* ---------------------------------------------------------- JSON values
\* A parsed JSON value carries its JavaScript type (t); an object carries
\* its properties (f), an array of texts its elements (v).
JNum(n) == [t |-> "number", v |-> n]
JStr(s) == [t |-> "string", v |-> s]
JArr(a) == [t |-> "array", v |-> a, f |-> <<>>]
JObj(props) == [t |-> "object", f |-> props]
JNullValue == [t |-> "null"]

TypeOf(x, k) == IF k \in DOMAIN x.f THEN x.f[k].t ELSE "undefined"

\* mutant: the predicate forgets the id
isEntryLoose(x) ==
  /\ x.t \in {"object", "array"}
  /\ TypeOf(x, "title") = "string"
  /\ TypeOf(x, "oneLiner") = "string"
  /\ TypeOf(x, "example") = "string"
  /\ TypeOf(x, "tags") = "array"
  /\ TypeOf(x, "createdAt") = "number"
  /\ TypeOf(x, "updatedAt") = "number"

\* x && typeof x === "object" && ... : null is falsy, a number is no object,
\* an array is an object without the properties
isEntry(x) ==
  /\ x.t \in {"object", "array"}
  /\ TypeOf(x, "id") = "string"
  /\ TypeOf(x, "title") = "string"
  /\ TypeOf(x, "oneLiner") = "string"
  /\ TypeOf(x, "example") = "string"
  /\ TypeOf(x, "tags") = "array"
  /\ TypeOf(x, "createdAt") = "number"
  /\ TypeOf(x, "updatedAt") = "number"

\* the Entry an element that passed isEntry is used as
AsEntry(x) ==
  Entry(x.f.id.v, x.f.title.v, x.f.oneLiner.v, x.f.example.v, x.f.tags.v,
        x.f.createdAt.v, x.f.updatedAt.v)

\* the JSON text of one entry object
EntryJson(id, title, tags, createdAt, updatedAt) ==
  JObj([id |-> JStr(id), title |-> JStr(title), oneLiner |-> JStr(<<>>),
        example |-> JStr(<<>>), tags |-> JArr(tags),
        createdAt |-> JNum(createdAt), updatedAt |-> JNum(updatedAt)])

\* ----------------------------------------------------------- the files
\* What the user can pick in the file dialog: a text that is no JSON, a
\* JSON value that is no array, and arrays.
NotJson == [json |-> FALSE]
JsonFile(value) == [json |-> TRUE, value |-> value]

Files ==
  << NotJson,
     JsonFile(JObj([a |-> JNum(1)])),
     \* no element passes isEntry: a number, and an object whose id is a number
     JsonFile(JArr(<< JNum(1),
                      JObj([id |-> JNum(5), title |-> JStr(<<"a">>),
                            oneLiner |-> JStr(<<>>), example |-> JStr(<<>>),
                            tags |-> JArr(<<>>), createdAt |-> JNum(1),
                            updatedAt |-> JNum(1)]) >>)),
     \* id 1 of an earlier session with updatedAt 1e999, and a null
     JsonFile(JArr(<< EntryJson(1, <<"A">>, <<>>, 1, Infinity), JNullValue >>)),
     \* id 2 twice, the first with updatedAt < createdAt
     JsonFile(JArr(<< EntryJson(2, <<"a">>, <<>>, 3, 2),
                      EntryJson(2, <<"b">>, <<>>, 1, 3) >>)),
     \* an entry whose id is the empty string, and the first entry this
     \* session created, as exported
     JsonFile(JArr(<< EntryJson(EmptyId, <<"a">>, <<<<"a">>>>, 1, 3),
                      EntryJson(-1, <<"b">>, <<>>, 1, 1) >>)) >>

FileIndex == 1..Len(Files)

\* the ids a file names (used to pick only files that can exist)
FileIds(n) ==
  IF Files[n].json /\ Files[n].value.t = "array"
  THEN {AsEntry(x).id : x \in {y \in SeqRange(Files[n].value.v) : isEntry(y)}}
  ELSE {}

\* ------------------------------------------------------------ storage
Absent == [kind |-> "absent"]
Garbage == [kind |-> "notjson"]
NonArray == [kind |-> "nonarray"]
Unavailable == [kind |-> "unavailable"]
Blob(es) == [kind |-> "array", v |-> es]

\* JSON.stringify of a number: a non-finite number is written as null
StringifyNumber(n) == IF n >= Infinity THEN JsonNull ELSE n

Stringify(es) ==
  [i \in DOMAIN es |->
     [es[i] EXCEPT !.createdAt = StringifyNumber(@),
                   !.updatedAt = StringifyNumber(@)]]

\* JSON.parse of what Stringify wrote
Parse(v) == v

loadEntries(raw) ==
  IF raw.kind = "array" THEN Parse(raw.v) ELSE <<>>

\* what localStorage holds after saveEntries(es)
saveEntries(es) == Blob(Stringify(es))

\* ------------------------------------------------------------------ uid
\* mutant: an identifier that does not differ from call to call
uidRepeating(n) == -1

\* the n-th identifier of the session
uid(n) == -n

\* ---------------------------------------------------------------- state
VARIABLES
  entries,      \* useState: the collection
  selectedId,   \* useState: the selection, EmptyId for none
  query,        \* useState: the search text
  stored,       \* localStorage under KEY
  app,          \* "constructed", "running" or "unmounted"
  now,          \* Date.now()
  uidCount,     \* the number of uid() calls so far
  created,      \* the number of createNew calls so far
  steps,        \* the number of events handled so far
  inflight,     \* the imports awaiting file.text()
  started,      \* the number of imports started
  fileValue,    \* the file input's value: 0 for none, or the file picked
  lastAlert,    \* the message of the last alert()
  lastOp,       \* history: the last handler run
  lastImport,   \* history: the import the last step completed, or Null
  repaired      \* history: the last commit ran the selection repair

vars == << entries, selectedId, query, stored, app, now, uidCount, created,
           steps, inflight, started, fileValue, lastAlert, lastOp, lastImport,
           repaired >>

\* ------------------------------------------------------------- start-up
\* what an earlier session left in localStorage
Previous1 == Entry(1, <<"t">>, <<>>, <<>>, <<>>, 0, 0)
Previous2 == Entry(2, <<"d">>, <<>>, <<>>, <<<<"a">>>>, 0, 1)

InitialStorage ==
  { Absent, Garbage, NonArray, Unavailable, Blob(<<>>),
    Blob(<<Previous1, Previous2>>) }

\* the two entries of a blank start
Seeds(t, n) ==
  << Entry(uid(n + 1), <<"t">>, <<"r">>, <<"t">>, << <<"d">>, <<"s">> >>, t, t),
     Entry(uid(n + 2), <<"d">>, <<"i">>, <<"c">>, << <<"l">>, <<"o">> >>,
           t + 1, t + 1) >>

InitialEntries(raw, t) ==
  LET loaded == loadEntries(raw)
  IN IF Len(loaded) > 0 THEN loaded ELSE Seeds(t, 0)

InitialSelectedId(raw) ==
  LET loaded == loadEntries(raw)
  IN IF Len(loaded) > 0 THEN loaded[1].id ELSE EmptyId

\* the state the useState initializers leave, before the first effects
Init ==
  /\ stored \in InitialStorage
  /\ now = 1
  /\ entries = InitialEntries(stored, now)
  /\ selectedId = InitialSelectedId(stored)
  /\ uidCount = IF Len(loadEntries(stored)) > 0 THEN 0 ELSE 2
  /\ created = 0
  /\ steps = 0
  /\ query = <<>>
  /\ app = "constructed"
  /\ inflight = <<>>
  /\ started = 0
  /\ fileValue = 0
  /\ lastAlert = ""
  /\ lastOp = "none"
  /\ lastImport = Null
  /\ repaired = FALSE

\* ------------------------------------------------------- render, effects
\* the selection repair effect: what selectedId is once it has run
Repair(es, sel) ==
  IF sel = EmptyId /\ Len(es) > 0 THEN es[1].id ELSE sel

\* mutant: the persist effect runs after the first render only (its
\* dependency list is empty)
CommitPersistsOnce(es, sel, write, ok) ==
  /\ entries' = es
  /\ selectedId' = Repair(es, sel)
  /\ repaired' = (sel = EmptyId /\ Len(es) > 0)
  /\ IF write /\ app = "constructed"
     THEN IF ok /\ stored.kind # "unavailable"
          THEN stored' = saveEntries(es) /\ app' = "running"
          ELSE stored' = stored /\ app' = "unmounted"
     ELSE stored' = stored /\ app' = "running"

\* React renders the state (es, sel) a handler has set and runs the
\* effects: the persist effect when entries changed (write), then the
\* selection repair, whose setSelectedId is rendered in turn. A setItem
\* that throws (ok false: the quota is exceeded; or storage is disabled)
\* is an exception no one catches, and React unmounts the tree.
Commit(es, sel, write, ok) ==
  /\ entries' = es
  /\ selectedId' = Repair(es, sel)
  /\ repaired' = (sel = EmptyId /\ Len(es) > 0)
  /\ IF write
     THEN IF ok /\ stored.kind # "unavailable"
          THEN stored' = saveEntries(es) /\ app' = "running"
          ELSE stored' = stored /\ app' = "unmounted"
     ELSE stored' = stored /\ app' = "running"

\* the effects of the first render
Mount ==
  /\ app = "constructed"
  /\ \E ok \in BOOLEAN : Commit(entries, selectedId, TRUE, ok)
  /\ lastOp' = "mount"
  /\ lastImport' = Null
  /\ UNCHANGED << query, now, uidCount, created, steps, inflight, started,
                  fileValue, lastAlert >>

\* time passes
Tick ==
  /\ app = "running"
  /\ now < MaxTime
  /\ now' = now + 1
  /\ UNCHANGED << entries, selectedId, query, stored, app, uidCount, created,
                  steps, inflight, started, fileValue, lastAlert, lastOp,
                  lastImport, repaired >>

\* ------------------------------------------------------------- handlers
\* history kept with each import in flight: whether another import was
\* being read while it was, and whether the collection was edited since
MarkEdited(fl) == [i \in DOMAIN fl |-> [fl[i] EXCEPT !.edited = TRUE]]
MarkOverlapped(fl) == [i \in DOMAIN fl |-> [fl[i] EXCEPT !.overlapped = TRUE]]

createNew ==
  /\ app = "running"
  /\ steps < MaxSteps
  /\ created < MaxCreate
  /\ LET e == Entry(uid(uidCount + 1), <<"n">>, <<>>, <<>>, <<>>, now, now)
     IN \E ok \in BOOLEAN : Commit(<<e>> \o entries, e.id, TRUE, ok)
  /\ uidCount' = uidCount + 1
  /\ created' = created + 1
  /\ steps' = steps + 1
  /\ inflight' = MarkEdited(inflight)
  /\ lastOp' = "createNew"
  /\ lastImport' = Null
  /\ UNCHANGED << query, now, started, fileValue, lastAlert >>

\* what the editor's inputs can pass to updateSelected
Patches ==
  << [field |-> "title", value |-> <<"A">>],
     [field |-> "tags", value |-> normalizeTags(<<"A", ",", " ", "a", " ", ",">>)] >>

\* { ...e, ...patch, updatedAt: Date.now() }
ApplyPatch(e, patch, t) ==
  LET p == IF patch.field = "title" THEN [e EXCEPT !.title = patch.value]
           ELSE IF patch.field = "oneLiner" THEN [e EXCEPT !.oneLiner = patch.value]
           ELSE IF patch.field = "example" THEN [e EXCEPT !.example = patch.value]
           ELSE [e EXCEPT !.tags = patch.value]
  IN [p EXCEPT !.updatedAt = t]

updateSelected(patch) ==
  /\ app = "running"
  /\ steps < MaxSteps
  /\ selected(entries, selectedId) # Null
  /\ LET id == selected(entries, selectedId).id
         next == [i \in DOMAIN entries |->
                    IF entries[i].id = id THEN ApplyPatch(entries[i], patch, now)
                    ELSE entries[i]]
     IN \E ok \in BOOLEAN : Commit(next, selectedId, TRUE, ok)
  /\ steps' = steps + 1
  /\ inflight' = MarkEdited(inflight)
  /\ lastOp' = "updateSelected"
  /\ lastImport' = Null
  /\ UNCHANGED << query, now, uidCount, created, started, fileValue, lastAlert >>

\* entries.filter((e) => e.id !== id)
Without(es, id) == FilterSeq(es, [i \in DOMAIN es |-> es[i].id # id])

\* the selection deleteSelected sets: remaining[0]?.id ?? ""
NextSelection(es, id) ==
  LET remaining == SortDesc(Without(es, id))
  IN IF Len(remaining) > 0 THEN remaining[1].id ELSE EmptyId

deleteSelected ==
  /\ app = "running"
  /\ steps < MaxSteps
  /\ selected(entries, selectedId) # Null
  /\ LET id == selected(entries, selectedId).id
     IN \E ok \in BOOLEAN :
          Commit(Without(entries, id), NextSelection(entries, id), TRUE, ok)
  /\ steps' = steps + 1
  /\ inflight' = MarkEdited(inflight)
  /\ lastOp' = "deleteSelected"
  /\ lastImport' = Null
  /\ UNCHANGED << query, now, uidCount, created, started, fileValue, lastAlert >>

\* a click on the i-th item of the list
selectItem(i) ==
  /\ app = "running"
  /\ steps < MaxSteps
  /\ i \in DOMAIN filtered(entries, query)
  /\ \E ok \in BOOLEAN :
       Commit(entries, filtered(entries, query)[i].id, FALSE, ok)
  /\ steps' = steps + 1
  /\ lastOp' = "selectItem"
  /\ lastImport' = Null
  /\ UNCHANGED << query, now, uidCount, created, inflight, started, fileValue,
                  lastAlert >>

\* what the user types in the search box
Queries == { <<>>, <<"A", " ">> }

setQuery(q) ==
  /\ app = "running"
  /\ steps < MaxSteps
  /\ q # query
  /\ query' = q
  /\ \E ok \in BOOLEAN : Commit(entries, selectedId, FALSE, ok)
  /\ steps' = steps + 1
  /\ lastOp' = "setQuery"
  /\ lastImport' = Null
  /\ UNCHANGED << now, uidCount, created, inflight, started, fileValue,
                  lastAlert >>

\* --------------------------------------------------------------- import
\* picking a file: the input's change event calls importJsonFile, which
\* waits for file.text(); seen is the entries its closure holds
importStart(f) ==
  /\ app = "running"
  /\ steps < MaxSteps
  /\ started < MaxImports
  /\ f # fileValue
  \* a file names an id of this session only once uid() has returned it
  /\ \A id \in FileIds(f) : id < 0 => -id <= uidCount
  /\ inflight' =
       Append(IF Len(inflight) > 0 THEN MarkOverlapped(inflight) ELSE inflight,
              [file |-> f, seen |-> entries, overlapped |-> Len(inflight) > 0,
               edited |-> FALSE])
  /\ started' = started + 1
  /\ steps' = steps + 1
  /\ fileValue' = f
  /\ lastOp' = "importStart"
  /\ lastImport' = Null
  /\ UNCHANGED << entries, selectedId, query, stored, app, now, uidCount,
                  created, lastAlert, repaired >>

\* parsed.filter(isEntry)
Incoming(file) ==
  LET a == file.value.v
      kept == FilterSeq(a, [i \in DOMAIN a |-> isEntry(a[i])])
  IN [i \in DOMAIN kept |-> AsEntry(kept[i])]

\* the message of the exception the try block ends with, "" for none
ImportError(file) ==
  IF ~file.json THEN "not valid JSON"
  ELSE IF file.value.t # "array" THEN "invalid json: expected an array"
  ELSE IF Len(Incoming(file)) = 0 THEN "no valid entries found"
  ELSE ""

\* mutant: a key already there keeps its value
MapSetKeepsExisting(m, e) ==
  IF \E i \in DOMAIN m : m[i].id = e.id THEN m ELSE Append(m, e)

\* Map.prototype.set on a map kept as the sequence of its values in
\* insertion order: a key already there keeps its place
MapSet(m, e) ==
  IF \E i \in DOMAIN m : m[i].id = e.id
  THEN [i \in DOMAIN m |-> IF m[i].id = e.id THEN e ELSE m[i]]
  ELSE Append(m, e)

RECURSIVE MapSetAll(_, _)
MapSetAll(m, es) ==
  IF es = <<>> THEN m ELSE MapSetAll(MapSet(m, Head(es)), Tail(es))

\* the updater given to setEntries: merge by id, incoming overwrites
Merge(prev, incoming) ==
  SortDesc(MapSetAll(MapSetAll(<<>>, prev), incoming))

\* mutant: the updater merges into the entries of the closure
UpdaterBaseClosure(prev, closure) == closure

\* the collection the updater merges into: prev, the state when the
\* update is applied, not the entries the handler's closure saw
UpdaterBase(prev, closure) == prev

\* incoming.sort(...)[0]
Newest(incoming) == SortDesc(incoming)[1]

\* The continuation of importJsonFile once file.text() has settled. React
\* runs the updater either at once (eager), on incoming as filtered, or at
\* the render that follows, after incoming.sort() has reordered the array
\* in place.
importComplete(i, eager) ==
  /\ app = "running"
  /\ steps < MaxSteps
  /\ i \in DOMAIN inflight
  /\ LET file == Files[inflight[i].file]
         err == ImportError(file)
     IN IF err # ""
        THEN /\ lastAlert' = err
             /\ UNCHANGED << entries, selectedId, stored, app, repaired >>
        ELSE LET incoming == Incoming(file)
                 order == IF eager THEN incoming ELSE SortDesc(incoming)
                 newest == Newest(incoming)
                 merged == Merge(UpdaterBase(entries, inflight[i].seen), order)
             IN /\ \E ok \in BOOLEAN :
                     Commit(merged,
                            IF newest.id # EmptyId THEN newest.id ELSE selectedId,
                            TRUE, ok)
                /\ lastAlert' = lastAlert
  /\ fileValue' = 0
  /\ inflight' = RemoveAt(inflight, i)
  /\ steps' = steps + 1
  /\ lastOp' = "importComplete"
  /\ lastImport' = [file |-> inflight[i].file,
                    overlapped |-> inflight[i].overlapped,
                    edited |-> inflight[i].edited]
  /\ UNCHANGED << query, now, uidCount, created, started >>

\* ------------------------------------------------------- specification
Next ==
  \/ Mount
  \/ Tick
  \/ createNew
  \/ \E k \in DOMAIN Patches : updateSelected(Patches[k])
  \/ deleteSelected
  \/ \E i \in 1..MaxEntries : selectItem(i)
  \/ \E q \in Queries : setQuery(q)
  \/ \E f \in FileIndex : importStart(f)
  \/ \E i \in 1..MaxImports, eager \in BOOLEAN : importComplete(i, eager)

Spec == Init /\ [][Next]_vars

TypeOK ==
  /\ app \in {"constructed", "running", "unmounted"}
  /\ now \in 1..MaxTime
  /\ uidCount \in 0..(MaxCreate + 2)
  /\ created \in 0..MaxCreate
  /\ steps \in 0..MaxSteps
  /\ Len(entries) <= MaxEntries
  /\ started \in 0..MaxImports
  /\ Len(inflight) <= MaxImports
  /\ fileValue \in {0} \cup FileIndex

\* ---------------------------------------------------------------- claims
Ids(es) == {es[i].id : i \in DOMAIN es}

Occurrences(es, id) == Cardinality({i \in DOMAIN es : es[i].id = id})

\* the Entry shape predicate as the specification words it: a record with
\* id, title, oneLiner, example as strings, tags as an array, createdAt and
\* updatedAt as numbers
ShapeOK(x) ==
  /\ x.t = "object"
  /\ \A k \in {"id", "title", "oneLiner", "example"} :
       k \in DOMAIN x.f /\ x.f[k].t = "string"
  /\ "tags" \in DOMAIN x.f /\ x.f.tags.t = "array"
  /\ \A k \in {"createdAt", "updatedAt"} :
       k \in DOMAIN x.f /\ x.f[k].t = "number"

ValidElements(n) ==
  IF Files[n].json /\ Files[n].value.t = "array"
  THEN {x \in SeqRange(Files[n].value.v) : ShapeOK(x)}
  ELSE {}

\* the text is no JSON, or no array, or holds no element of the Entry shape
FileFails(n) == ValidElements(n) = {}

IncomingRecords(n) == {AsEntry(x) : x \in ValidElements(n)}

IncomingIds(n) == {r.id : r \in IncomingRecords(n)}

\* the step is the completion of an import
ImportStep == steps' = steps + 1 /\ lastOp' = "importComplete"

\* the step is a deleteSelected whose write to localStorage succeeded
DeleteStep ==
  steps' = steps + 1 /\ lastOp' = "deleteSelected" /\ app' = "running"

EditOps == {"createNew", "updateSelected", "deleteSelected"}

C2_FailedImportChangesNothing ==
  [][ (ImportStep /\ FileFails(lastImport'.file))
        => (entries' = entries /\ selectedId' = selectedId /\ stored' = stored)
    ]_vars

C2_Witness ==
  /\ lastOp = "importComplete"
  /\ FileFails(lastImport.file)
  /\ lastAlert = "no valid entries found"
  /\ created > 0
  /\ stored = Blob(entries)

\* C3: after a successful import every incoming id is held exactly once,
\* by an incoming record; an entry whose id is not incoming is retained
\* unchanged, exactly once; and there are no other ids.
C3_ImportOverwritesById ==
  [][ (ImportStep /\ ~FileFails(lastImport'.file))
        => LET f == lastImport'.file
           IN /\ \A id \in IncomingIds(f) :
                   /\ Occurrences(entries', id) = 1
                   /\ \E i \in DOMAIN entries' :
                        entries'[i].id = id /\ entries'[i] \in IncomingRecords(f)
              /\ \A i \in DOMAIN entries :
                   entries[i].id \notin IncomingIds(f)
                     => /\ Occurrences(entries', entries[i].id) = 1
                        /\ entries[i] \in SeqRange(entries')
              /\ Ids(entries') = Ids(entries) \cup IncomingIds(f)
    ]_vars

\* the entry with id 1 an earlier session stored (updatedAt 0) is now the
\* record of the file, and the other stored entry is as it was
C3_Witness ==
  /\ app = "running"
  /\ lastOp = "importComplete"
  /\ ~FileFails(lastImport.file)
  /\ \E i \in DOMAIN entries :
       entries[i].id = 1 /\ entries[i].title = <<"A">>
         /\ entries[i].updatedAt = Infinity
  /\ Previous2 \in SeqRange(entries)

\* C4: deleteSelected removes the selected entry and no other; afterwards
\* selectedId is the id of a remaining entry of greatest updatedAt, or
\* EmptyId when none remains.
C4_DeleteSelectsGreatest ==
  [][ DeleteStep
        => /\ Ids(entries') = Ids(entries) \ {selectedId}
           /\ Len(entries') = Len(entries) - 1
           /\ \A i \in DOMAIN entries :
                entries[i].id # selectedId => entries[i] \in SeqRange(entries')
           /\ IF entries' = <<>> THEN selectedId' = EmptyId
              ELSE \E i \in DOMAIN entries' :
                     /\ entries'[i].id = selectedId'
                     /\ \A j \in DOMAIN entries' :
                          entries'[j].updatedAt <= entries'[i].updatedAt
    ]_vars

\* C5: no two entries of the collection have the same id.
C5_UniqueIds ==
  \A i, j \in DOMAIN entries : entries[i].id = entries[j].id => i = j

C5_Witness ==
  /\ app = "running"
  /\ lastOp = "importComplete"
  /\ ~FileFails(lastImport.file)
  /\ created > 0
  /\ Len(entries) >= 4

\* C6: every entry of the collection has updatedAt >= createdAt.
C6_UpdatedNotBeforeCreated ==
  \A i \in DOMAIN entries : entries[i].updatedAt >= entries[i].createdAt

\* C7: when the selection repair has run, the selection is the first
\* element of the filtered and sorted view.
C7_RepairSelectsFirstVisible ==
  (app = "running" /\ repaired)
    => /\ filtered(entries, query) # <<>>
       /\ selectedId = filtered(entries, query)[1].id

\* C8: an import that was read while another import was being read is
\* merged into the collection as it is when its read completes: every
\* entry of that collection whose id the import does not name is kept as
\* it is, and every id the import names is held by a record of the import.
C8_OverlappingImportsMerge ==
  [][ (ImportStep /\ lastImport'.overlapped /\ ~FileFails(lastImport'.file))
        => LET f == lastImport'.file
           IN /\ \A e \in SeqRange(entries) :
                   e.id \notin IncomingIds(f) => e \in SeqRange(entries')
              /\ \A id \in IncomingIds(f) :
                   \E e \in SeqRange(entries') :
                     e.id = id /\ e \in IncomingRecords(f)
    ]_vars

\* two imports were read at once, an entry was created in between, and
\* the collection holds the seeds' ids, the created one and both files'
C8_Witness ==
  /\ app = "running"
  /\ lastOp = "importComplete"
  /\ lastImport.overlapped
  /\ lastImport.edited
  /\ started = 2
  /\ inflight = <<>>
  /\ Ids(entries) = {uid(1), uid(2), uid(3), 1, 2}

\* C9: a failing read or write of localStorage is never fatal: a start
\* from an absent, unparsable or non-array value is a start from the
\* seeds, and the application is never unmounted.
C9_StorageFailureNotFatal ==
  /\ (app = "constructed" /\ stored.kind # "array") => entries = Seeds(now, 0)
  /\ app # "unmounted"

\* C10: selectedId is EmptyId only when the collection is empty, and is
\* otherwise the id of an entry of the collection.
C10_SelectionValid ==
  app = "running"
    => IF entries = <<>> THEN selectedId = EmptyId
       ELSE selectedId # EmptyId /\ selectedId \in Ids(entries)

====
